---- MODULE Spec2Model ----
(***************************************************************************)
(* A model of the IMSE scraper (imse_scraper): the per-entity extractors   *)
(* (candidate-URL loop and strategy chain), the concurrent subpage         *)
(* extraction of IMSEScraperAdvanced.extract_all_subpages, and the         *)
(* orchestration of IMSEScraperAdvanced.run_full_scrape.                   *)
(*                                                                         *)
(* Several specifications share the module; each leaves the variables of  *)
(* the others at their initial value:                                      *)
(*   SpecExtract   one call of one extractor                               *)
(*   SpecSubpages  one call of extract_all_subpages                        *)
(*   SpecRun       one call of run_full_scrape                             *)
(*   SpecRecords   the construction of one record of an entity type        *)
(*   SpecClean     clean_data applied to an aggregate, and to its output   *)
(*   SpecStaffTable extract_staff on a fetched page with one table         *)
(*   SpecProjectFilter is_valid_project, and extract_projects' final filter *)
(*   SpecPubContainers extract_publications on a page of containers        *)
(*   SpecFundingPeriod extract_funding_info and extract_period_info         *)
(*   SpecMainSections extract_main_sections                                 *)
(*   SpecPubLimit      extract_publications, all strategies, with a limit   *)
(*   SpecFetch         SessionManager.get_soup and get_selenium_soup        *)
(*   SpecProjectContents extract_project_contents                           *)
(*   SpecExtractCall   one extract_* method of IMSEScraperAdvanced          *)
(***************************************************************************)
EXTENDS Integers, Sequences, FiniteSets, TLC

VARIABLES
    \* ---- one extractor call (extractors/*.py)
    kind,        \* which extractor is running
    limit,       \* extract_publications' limit argument
    xpc,         \* position in the extractor
    fetchLog,    \* the candidate fetches made so far, in order
    branch,      \* a feature of the fetched document that selects a strategy
    sidx,        \* the next strategy of the chain
    recs,        \* the records collected so far (publications, staff, ...)
    ran,         \* the strategies that have run, in order
    contact,     \* extract_contact_info's contact_info: field -> source document
    result,      \* the returned list
    \* ---- extract_all_subpages (scraper.py, subpages.py, browser.py)
    sections,    \* base_sections: the URLs of the sections, in order
    max_depth,   \* the max_depth argument
    use_selenium,\* SessionManager.use_selenium
    wpc,         \* per pool task: "queued", "nav", "done"
    wres,        \* per pool task: the outcome of its future
    browser,     \* the page the shared driver is showing
    all_pages,   \* the aggregate: URL -> node
    mpc,         \* the calling thread's position
    cur,         \* the future the calling thread is processing
    subq,        \* the subpages of that future's node still to visit
    fetches,     \* every fetch made: who, which URL, which depth, how
    found,       \* every (URL, depth) discovered as a section or a subpage link
    \* ---- run_full_scrape (scraper.py)
    rpc,         \* position in run_full_scrape
    opts,        \* its arguments and the scraper's use_selenium
    extracted_data, \* the in-memory aggregate: key -> value
    completed,   \* the extractors that have run to completion, in order
    hints,       \* what extract_research_groups was given
    faulted,     \* the extractors that raised
    saved,       \* the files written: name, format
    driver,      \* "open", "closed" or "none"
    \* ---- one call of a function of the extractors or of the normalizer
    fn,          \* the function called
    arg,         \* its argument
    ret,         \* what it returned
    ret2,        \* what a second application, to ret, returned
    ppc          \* "start", "done", "again", "raised"

exVars  == <<kind, limit, xpc, fetchLog, branch, sidx, recs, ran, contact, result>>
subVars == <<sections, max_depth, use_selenium, wpc, wres, browser, all_pages,
             mpc, cur, subq, fetches, found>>
runVars == <<rpc, opts, extracted_data, completed, hints, faulted, saved, driver>>
fnVars  == <<fn, arg, ret, ret2, ppc>>
vars    == <<exVars, subVars, runVars, fnVars>>

(***************************************************************************)
(* Bounds of the model.                                                    *)
(***************************************************************************)
MaxYield == 2      \* records one strategy can find in a document
MaxLimit == 4      \* largest limit given to extract_publications
NumKeys == 2       \* distinct non-empty normalized titles/names
NumUrls == 3       \* pages of the site
NumSections == 2   \* base sections handed to extract_all_subpages
LinksPerPage == 2  \* subpage links on one page
DepthBound == 2    \* largest max_depth

None == "None"

(***************************************************************************)
(* The extractors: candidate URLs and strategy chains.                     *)
(***************************************************************************)
Kinds == {"news", "publications", "staff", "projects", "research_groups",
          "contact_info"}

\* The extractors that return a list.
ListKinds == Kinds \ {"contact_info"}

\* The number of entries of news_urls, publications_urls, staff_urls,
\* projects_urls, research_urls, contact_urls.
NumCandidates(k) ==
    CASE k = "news" -> 6
      [] k = "publications" -> 5
      [] k = "staff" -> 7
      [] k = "projects" -> 7
      [] k = "research_groups" -> 6
      [] k = "contact_info" -> 5

\* The strategies of each extractor that run on the document found, in the
\* order of the code. (extract_research_groups' first strategy, the headers
\* of a candidate page, runs inside its candidate loop.)
Chain(k) ==
    CASE k = "news" -> <<"container", "global_text">>
      [] k = "publications" -> <<"containers", "text", "pdf_links">>
      [] k = "staff" -> <<"tables", "containers", "lists", "text">>
      [] k = "projects" -> <<"sections", "links", "containers", "text">>
      [] k = "research_groups" -> <<"structure", "staff">>
      [] k = "contact_info" -> <<>>

ContactFields == {"address", "phone", "email"}

\* A record: the strategy that produced it, the candidate whose document it
\* was read from (0: not a candidate's document) and its normalized
\* title/name (0: empty).
Rec(s, d, key) == [strat |-> s, doc |-> d, key |-> key]

Keys == 0..NumKeys

RECURSIVE SeqsUpTo(_, _)
SeqsUpTo(S, n) ==
    IF n = 0 THEN {<<>>}
    ELSE LET shorter == SeqsUpTo(S, n - 1)
         IN  shorter \cup {Append(q, x) : q \in {p \in shorter : Len(p) = n - 1}, x \in S}

\* What one strategy can find on a page: up to MaxYield records.
Yields == SeqsUpTo(Keys, MaxYield)

Min(a, b) == IF a < b THEN a ELSE b

Take(q, n) == SubSeq(q, 1, Min(Len(q), n))

MkRecs(s, d, keys) == [i \in 1..Len(keys) |-> Rec(s, d, keys[i])]

\* A deduplication in which a later record with the same key replaces the
\* earlier one.
RECURSIVE DedupKeepsLast(_, _)
DedupKeepsLast(rs, seen) ==
    IF rs = <<>> THEN <<>>
    ELSE IF Head(rs).key # 0
            /\ \A n \in 2..Len(rs) : rs[n].key # Head(rs).key
         THEN <<Head(rs)>> \o DedupKeepsLast(Tail(rs), seen)
         ELSE DedupKeepsLast(Tail(rs), seen)

\* The returned list keeps, per normalized key, the first record, and drops
\* the records whose normalized key is empty (staff.py 270-286,
\* projects.py 301-311, publications.py 192-202).
RECURSIVE Dedup(_, _)
Dedup(rs, seen) ==
    IF rs = <<>> THEN <<>>
    ELSE IF Head(rs).key # 0 /\ Head(rs).key \notin seen
         THEN <<Head(rs)>> \o Dedup(Tail(rs), seen \cup {Head(rs).key})
         ELSE Dedup(Tail(rs), seen)

PostProcess(k, rs) ==
    IF k \in {"publications", "staff", "projects"} THEN Dedup(rs, {}) ELSE rs

\* Whether the candidate loop ends at a candidate that was fetched: the
\* first fetched page of news, publications, staff and projects ("if soup:
\* ... break"); the first page with a candidate group for research groups
\* ("if group_candidates: ... break"); the first page after which an address
\* or a phone is known for the contact information.
AcceptsDropBreak(k, info) == k # "news" /\ (k \in {"research_groups", "contact_info"} => info)

Accepts(k, info) == k \in {"research_groups", "contact_info"} => info

\* Whether the extractor returns [] right after a candidate loop in which no
\* fetch succeeded ("if not soup: return []").
ReturnsOnExhaustedStaffFallsThrough(k) == k \in {"news", "publications", "projects"}

ReturnsOnExhausted(k) == k \in {"news", "publications", "staff", "projects"}

\* Whether strategy s runs, given the records rs collected by the strategies
\* before it.
RunsStaffTextAlways(k, s, rs, lim, br) ==
    CASE k = "news" -> (s = "global_text" => rs = <<>>)
      [] k = "publications" ->
            (CASE s = "containers" -> TRUE
               [] s = "text" -> rs = <<>>
               [] s = "pdf_links" -> Len(rs) < lim \div 2)
      [] k = "staff" ->
            (CASE s = "tables" -> TRUE
               [] s = "containers" -> rs = <<>> /\ br
               [] s = "lists" -> rs = <<>> /\ ~br
               [] s = "text" -> TRUE)
      [] k = "projects" ->
            (CASE s = "sections" -> br
               [] s = "links" -> br /\ rs = <<>>
               [] s = "containers" -> rs = <<>>
               [] s = "text" -> rs = <<>>)
      [] k = "research_groups" -> rs = <<>>
      [] OTHER -> FALSE

Runs(k, s, rs, lim, br) ==
    CASE k = "news" -> (s = "global_text" => rs = <<>>)
      [] k = "publications" ->
            (CASE s = "containers" -> TRUE
               [] s = "text" -> rs = <<>>
               [] s = "pdf_links" -> Len(rs) < lim \div 2)
      [] k = "staff" ->
            (CASE s = "tables" -> TRUE
               [] s = "containers" -> rs = <<>> /\ br
               [] s = "lists" -> rs = <<>> /\ ~br
               [] s = "text" -> rs = <<>>)
      [] k = "projects" ->
            (CASE s = "sections" -> br
               [] s = "links" -> br /\ rs = <<>>
               [] s = "containers" -> rs = <<>>
               [] s = "text" -> rs = <<>>)
      [] k = "research_groups" -> rs = <<>>
      [] OTHER -> FALSE

\* extract_publications' loop over its three text patterns: the matches of
\* each pattern, cut to limit, are appended; the loop ends after a pattern
\* that matched once limit // 2 publications are collected.
RECURSIVE PatternLoop(_, _, _, _)
PatternLoop(matches, p, acc, lim) ==
    IF p > Len(matches) THEN acc
    ELSE IF matches[p] = <<>> THEN PatternLoop(matches, p + 1, acc, lim)
    ELSE LET acc2 == acc \o Take(matches[p], lim)
         IN  IF Len(acc2) >= lim \div 2 THEN acc2
             ELSE PatternLoop(matches, p + 1, acc2, lim)

\* The document the strategies read: the last candidate fetched (soup,
\* used_url); the research-groups fallbacks read other pages.
UsedDoc == IF kind = "research_groups" \/ fetchLog = <<>> THEN 0
           ELSE fetchLog[Len(fetchLog)].cand

InitExtract ==
    /\ kind \in Kinds
    /\ limit \in (IF kind = "publications" THEN 1..MaxLimit ELSE {0})
    /\ xpc = "url_search"
    /\ fetchLog = <<>>
    /\ branch = FALSE
    /\ sidx = 1
    /\ recs = <<>>
    /\ ran = <<>>
    /\ contact = [f \in ContactFields |-> 0]
    /\ result = <<>>
    \* extract_all_subpages and run_full_scrape are not running
    /\ sections = <<>> /\ max_depth = 0 /\ use_selenium = FALSE
    /\ wpc = <<>> /\ wres = <<>> /\ browser = 0 /\ all_pages = <<>>
    /\ mpc = "idle" /\ cur = 0 /\ subq = <<>> /\ fetches = {} /\ found = {}
    /\ rpc = "idle" /\ opts = <<>> /\ extracted_data = <<>> /\ completed = <<>>
    /\ hints = <<>> /\ faulted = {} /\ saved = {} /\ driver = "none"
    /\ fn = None /\ arg = <<>> /\ ret = <<>> /\ ret2 = <<>> /\ ppc = "idle"

NextCand == Len(fetchLog) + 1

\* get_soup returned None for the next candidate: "continue".
FetchFails ==
    /\ xpc = "url_search"
    /\ NextCand <= NumCandidates(kind)
    /\ fetchLog' = Append(fetchLog, [cand |-> NextCand, ok |-> FALSE, info |-> FALSE])
    /\ UNCHANGED <<kind, limit, xpc, branch, sidx, recs, ran, contact, result>>
    /\ UNCHANGED <<subVars, runVars, fnVars>>

\* news, publications, staff, projects: get_soup returned a document.
FetchFound ==
    /\ xpc = "url_search"
    /\ kind \in {"news", "publications", "staff", "projects"}
    /\ NextCand <= NumCandidates(kind)
    /\ fetchLog' = Append(fetchLog, [cand |-> NextCand, ok |-> TRUE, info |-> TRUE])
    /\ xpc' = IF Accepts(kind, TRUE) THEN "strategies" ELSE "url_search"
    /\ branch' \in (IF kind \in {"staff", "projects"} THEN BOOLEAN ELSE {FALSE})
    /\ UNCHANGED <<kind, limit, sidx, recs, ran, contact, result>>
    /\ UNCHANGED <<subVars, runVars, fnVars>>

\* extract_research_groups: a candidate page was fetched; its headers give
\* the candidate groups.
FetchResearch ==
    /\ xpc = "url_search"
    /\ kind = "research_groups"
    /\ NextCand <= NumCandidates(kind)
    /\ \E keys \in Yields :
         /\ fetchLog' = Append(fetchLog,
                [cand |-> NextCand, ok |-> TRUE, info |-> keys # <<>>])
         /\ recs' = recs \o MkRecs("headers", NextCand, keys)
         /\ ran' = Append(ran, "headers")
         /\ xpc' = IF Accepts(kind, keys # <<>>) THEN "strategies" ELSE "url_search"
    /\ UNCHANGED <<kind, limit, branch, sidx, contact, result>>
    /\ UNCHANGED <<subVars, runVars, fnVars>>

\* extract_contact_info: a candidate page was fetched; the fields found on
\* it overwrite contact_info, the others keep what earlier pages gave.
FetchContact ==
    /\ xpc = "url_search"
    /\ kind = "contact_info"
    /\ NextCand <= NumCandidates(kind)
    /\ \E F \in SUBSET ContactFields :
         LET c2 == [f \in ContactFields |-> IF f \in F THEN NextCand ELSE contact[f]]
             info == c2["address"] # 0 \/ c2["phone"] # 0
         IN  /\ contact' = c2
             /\ fetchLog' = Append(fetchLog,
                    [cand |-> NextCand, ok |-> TRUE, info |-> info])
             /\ xpc' = IF Accepts(kind, info) THEN "strategies" ELSE "url_search"
    /\ UNCHANGED <<kind, limit, branch, sidx, recs, ran, result>>
    /\ UNCHANGED <<subVars, runVars, fnVars>>

\* The candidate loop ended without a break.
Exhausted ==
    /\ xpc = "url_search"
    /\ NextCand > NumCandidates(kind)
    /\ IF ReturnsOnExhausted(kind) /\ ~fetchLog[Len(fetchLog)].ok
       THEN xpc' = "returned" /\ result' = <<>>
       ELSE xpc' = "strategies" /\ UNCHANGED result
    /\ UNCHANGED <<kind, limit, fetchLog, branch, sidx, recs, ran, contact>>
    /\ UNCHANGED <<subVars, runVars, fnVars>>

\* What strategy s adds to rs, given what it finds on the page.
Added(k, s, rs, lim, finds) ==
    CASE k = "publications" /\ s = "containers" -> Take(finds[1], lim)
      [] k = "publications" /\ s = "text" -> PatternLoop(finds, 1, <<>>, lim)
      [] k = "publications" /\ s = "pdf_links" -> Take(finds[1], lim - Len(rs))
      [] OTHER -> finds[1]

\* The number of patterns or selectors whose matches strategy s reads.
Finds(k, s) ==
    IF k = "publications" /\ s = "text"
    THEN [1..3 -> Yields]
    ELSE [1..1 -> Yields]

RunStrategy ==
    /\ xpc = "strategies"
    /\ sidx <= Len(Chain(kind))
    /\ LET s == Chain(kind)[sidx]
       IN  /\ Runs(kind, s, recs, limit, branch)
           /\ \E finds \in Finds(kind, s) :
                recs' = recs \o MkRecs(s, UsedDoc, Added(kind, s, recs, limit, finds))
           /\ ran' = Append(ran, s)
    /\ sidx' = sidx + 1
    /\ UNCHANGED <<kind, limit, xpc, fetchLog, branch, contact, result>>
    /\ UNCHANGED <<subVars, runVars, fnVars>>

SkipStrategy ==
    /\ xpc = "strategies"
    /\ sidx <= Len(Chain(kind))
    /\ ~Runs(kind, Chain(kind)[sidx], recs, limit, branch)
    /\ sidx' = sidx + 1
    /\ UNCHANGED <<kind, limit, xpc, fetchLog, branch, recs, ran, contact, result>>
    /\ UNCHANGED <<subVars, runVars, fnVars>>

Return ==
    /\ xpc = "strategies"
    /\ sidx > Len(Chain(kind))
    /\ result' = PostProcess(kind, recs)
    /\ xpc' = "returned"
    /\ UNCHANGED <<kind, limit, fetchLog, branch, sidx, recs, ran, contact>>
    /\ UNCHANGED <<subVars, runVars, fnVars>>

NextExtract ==
    \/ FetchFails
    \/ FetchFound
    \/ FetchResearch
    \/ FetchContact
    \/ Exhausted
    \/ RunStrategy
    \/ SkipStrategy
    \/ Return

SpecExtract == InitExtract /\ [][NextExtract]_vars

(***************************************************************************)
(* Properties of one extractor call (SpecExtract).                         *)
(***************************************************************************)
FirstSuccessKinds == {"news", "publications", "staff", "projects"}

AllFailed ==
    /\ Len(fetchLog) = NumCandidates(kind)
    /\ \A i \in 1..Len(fetchLog) : ~fetchLog[i].ok

\* The candidate loop is over.
LoopOver == xpc \in {"strategies", "returned"}

Strats(rs) == {rs[n].strat : n \in 1..Len(rs)}

\* C4 as stated: in every extractor all records collected come from one
\* strategy.
C4_SingleStrategy == Cardinality(Strats(recs)) <= 1

\* C4 amended: news, staff, projects and research groups take their records
\* from one strategy, and once a strategy has given a record no later one
\* runs. extract_publications takes records from its containers or else from
\* its text patterns, and adds the records of its PDF-link strategy
\* whenever the others gave fewer than limit // 2.
C4_StrategyChain ==
    /\ kind # "publications" =>
          /\ Cardinality(Strats(recs)) <= 1
          /\ recs # <<>> => ran[Len(ran)] = recs[1].strat
    /\ kind = "publications" =>
          /\ ~({"containers", "text"} \subseteq Strats(recs))
          /\ "pdf_links" \in Strats(recs) =>
                Cardinality({n \in 1..Len(recs) : recs[n].strat # "pdf_links"})
                    < limit \div 2
    /\ Strats(result) \subseteq Strats(recs)

\* extract_staff returned the records of its tables, and no other strategy
\* ran.
C4_Witness ==
    /\ kind = "staff" /\ xpc = "returned" /\ result # <<>>
    /\ ran = <<"tables">> /\ sidx > Len(Chain(kind))

\* C5 as stated: a list-returning extractor whose candidates all failed
\* returns the empty list.
C5_ExhaustedIsEmpty ==
    (kind \in ListKinds /\ AllFailed /\ xpc = "returned") => result = <<>>

\* C5 amended: news, publications, staff and projects return the empty list
\* right after a candidate loop in which every fetch failed, without running
\* a strategy. extract_research_groups goes on to its site-structure and
\* staff fallbacks, and returns what they give.
C5_Exhausted ==
    /\ (kind \in FirstSuccessKinds /\ AllFailed) =>
          /\ xpc \in {"url_search", "returned"}
          /\ ran = <<>> /\ recs = <<>> /\ result = <<>>
    /\ (kind = "research_groups" /\ AllFailed /\ xpc = "returned") =>
          /\ result = recs
          /\ \A n \in 1..Len(result) :
                result[n].strat \in {"structure", "staff"} /\ result[n].doc = 0

\* extract_projects returned after its seven candidates failed.
C5_Witness ==
    kind = "projects" /\ AllFailed /\ xpc = "returned"

(***************************************************************************)
(* extract_all_subpages: a pool of workers runs extract_subpage_content at *)
(* depth 0 for every base section; the calling thread takes the futures in *)
(* order, stores each result in all_pages and, when max_depth > 1, fetches *)
(* the subpages of the result itself at depth 1.                           *)
(***************************************************************************)
URLs == 1..NumUrls

\* ThreadPoolExecutor(max_workers=5)
MaxWorkers == 5

Tasks == 1..Len(sections)

\* The site: the same-domain links of page u, in document order, without
\* repetition.
SiteLinks(u) == [i \in 1..Min(LinksPerPage, NumUrls) |-> ((u + i - 1) % NumUrls) + 1]

NoNode == [url |-> 0, src |-> 0, subpages |-> <<>>]

\* The node extract_subpage_content builds for url at depth d from the
\* document of page src: subpage links are collected below max_depth only.
Node(url, src, d) ==
    [url |-> url, src |-> src,
     subpages |-> IF d < max_depth THEN SiteLinks(src) ELSE <<>>]

Discovered(node, d) ==
    {[url |-> node.subpages[i], depth |-> d + 1] : i \in 1..Len(node.subpages)}

\* "url in all_pages"
InAgg(pages, u) == pages[u].url # 0

\* extract_subpage_content: "if current_depth > max_depth: return None"
TooDeep(d, md) == d > md

\* extract_subpage_content: use_selenium = (current_depth == 0)
UseSeleniumAlways(d) == TRUE

UseSelenium(d) == d = 0

\* SessionManager.get_soup: "if self.use_selenium and use_selenium"
GetSoupNavigates(smSel, req) == smSel /\ req

\* extract_all_subpages: "if subpage_url not in all_pages"
ShouldFetchSubAlways(pages, u) == TRUE

ShouldFetchSub(pages, u) == ~InAgg(pages, u)

\* extract_all_subpages: the future the calling thread turns to after
\* future c raised ("except Exception as e: self.logger.error"), n futures
\* in all.
AfterWorkerErrorAborts(c, n) == n + 1

AfterWorkerError(c, n) == c + 1

Fetch(i, u, d, nav) ==
    [by |-> i, url |-> u, depth |-> d, sel |-> UseSelenium(d), nav |-> nav,
     inAgg |-> InAgg(all_pages, u)]

Pending == [kind |-> "pending", node |-> NoNode]

InitSubpages ==
    /\ sections \in [1..NumSections -> URLs]
    /\ max_depth \in (0 - 1)..DepthBound
    /\ use_selenium \in BOOLEAN
    /\ wpc = [i \in 1..NumSections |-> "queued"]
    /\ wres = [i \in 1..NumSections |-> Pending]
    /\ browser = 0
    /\ all_pages = [u \in URLs |-> NoNode]
    /\ mpc = "wait"
    /\ cur = 1
    /\ subq = <<>>
    /\ fetches = {}
    /\ found = {[url |-> sections[i], depth |-> 0] : i \in 1..NumSections}
    \* no extractor call and no run_full_scrape
    /\ kind = None /\ limit = 0 /\ xpc = "idle" /\ fetchLog = <<>>
    /\ branch = FALSE /\ sidx = 1 /\ recs = <<>> /\ ran = <<>>
    /\ contact = [f \in ContactFields |-> 0] /\ result = <<>>
    /\ rpc = "idle" /\ opts = <<>> /\ extracted_data = <<>> /\ completed = <<>>
    /\ hints = <<>> /\ faulted = {} /\ saved = {} /\ driver = "none"
    /\ fn = None /\ arg = <<>> /\ ret = <<>> /\ ret2 = <<>> /\ ppc = "idle"

\* The pool starts the tasks in the order of submission, at most MaxWorkers
\* at a time.
CanStart(i) ==
    /\ wpc[i] = "queued"
    /\ \A j \in 1..(i - 1) : wpc[j] # "queued"
    /\ Cardinality({j \in Tasks : wpc[j] = "nav"}) < MaxWorkers

Finish(i, k, node) ==
    /\ wpc' = [wpc EXCEPT ![i] = "done"]
    /\ wres' = [wres EXCEPT ![i] = [kind |-> k, node |-> node]]
    /\ found' = found \cup Discovered(node, 0)

\* extract_subpage_content returns None before any fetch.
WTooDeep(i) ==
    /\ CanStart(i)
    /\ TooDeep(0, max_depth)
    /\ Finish(i, "none", NoNode)
    /\ UNCHANGED <<sections, max_depth, use_selenium, browser, all_pages, mpc, cur,
                   subq, fetches>>
    /\ UNCHANGED <<exVars, runVars, fnVars>>

\* get_selenium_soup: self.driver.get(url)
WNavigate(i) ==
    /\ CanStart(i)
    /\ ~TooDeep(0, max_depth)
    /\ GetSoupNavigates(use_selenium, UseSelenium(0))
    /\ browser' = sections[i]
    /\ wpc' = [wpc EXCEPT ![i] = "nav"]
    /\ fetches' = fetches \cup {Fetch(i, sections[i], 0, TRUE)}
    /\ UNCHANGED <<sections, max_depth, use_selenium, wres, all_pages, mpc, cur, subq,
                   found>>
    /\ UNCHANGED <<exVars, runVars, fnVars>>

\* get_selenium_soup: self.driver.get(url) raises; "except Exception" falls
\* back to get_soup(url). The driver may or may not have left its page.
WNavFails(i) ==
    /\ CanStart(i)
    /\ ~TooDeep(0, max_depth)
    /\ GetSoupNavigates(use_selenium, UseSelenium(0))
    /\ browser' \in {browser, sections[i]}
    /\ fetches' = fetches \cup {Fetch(i, sections[i], 0, TRUE)}
    /\ \E ok \in BOOLEAN :
         IF ok THEN Finish(i, "ok", Node(sections[i], sections[i], 0))
         ELSE Finish(i, "none", NoNode)
    /\ UNCHANGED <<sections, max_depth, use_selenium, all_pages, mpc, cur, subq>>
    /\ UNCHANGED <<exVars, runVars, fnVars>>

\* get_selenium_soup: html = self.driver.page_source, after the waits; the
\* node is built from the page the driver shows now.
WRead(i) ==
    /\ wpc[i] = "nav"
    /\ Finish(i, "ok", Node(sections[i], browser, 0))
    /\ UNCHANGED <<sections, max_depth, use_selenium, browser, all_pages, mpc, cur,
                   subq, fetches>>
    /\ UNCHANGED <<exVars, runVars, fnVars>>

\* get_selenium_soup: the wait or the read raises; "except Exception" falls
\* back to get_soup(url), the static fetch with its retries.
WFallback(i) ==
    /\ wpc[i] = "nav"
    /\ \E ok \in BOOLEAN :
         IF ok THEN Finish(i, "ok", Node(sections[i], sections[i], 0))
         ELSE Finish(i, "none", NoNode)
    /\ UNCHANGED <<sections, max_depth, use_selenium, browser, all_pages, mpc, cur,
                   subq, fetches>>
    /\ UNCHANGED <<exVars, runVars, fnVars>>

\* get_soup without Selenium: the static fetch with its retries gives a
\* document or None.
WStatic(i) ==
    /\ CanStart(i)
    /\ ~TooDeep(0, max_depth)
    /\ ~GetSoupNavigates(use_selenium, UseSelenium(0))
    /\ fetches' = fetches \cup {Fetch(i, sections[i], 0, FALSE)}
    /\ \E ok \in BOOLEAN :
         IF ok THEN Finish(i, "ok", Node(sections[i], sections[i], 0))
         ELSE Finish(i, "none", NoNode)
    /\ UNCHANGED <<sections, max_depth, use_selenium, browser, all_pages, mpc, cur,
                   subq>>
    /\ UNCHANGED <<exVars, runVars, fnVars>>

\* The worker raises: the exception is kept in its future.
WFault(i) ==
    /\ CanStart(i) \/ wpc[i] = "nav"
    /\ Finish(i, "exc", NoNode)
    /\ UNCHANGED <<sections, max_depth, use_selenium, browser, all_pages, mpc, cur,
                   subq, fetches>>
    /\ UNCHANGED <<exVars, runVars, fnVars>>

\* The calling thread: data = future.result() for the next future.
MResult ==
    /\ mpc = "wait"
    /\ cur <= Len(sections)
    /\ wpc[cur] = "done"
    /\ LET r == wres[cur]
           u == sections[cur]
       IN  CASE r.kind = "exc" ->
                  /\ cur' = AfterWorkerError(cur, Len(sections))
                  /\ UNCHANGED <<all_pages, mpc, subq>>
             [] r.kind = "none" ->
                  /\ cur' = cur + 1
                  /\ UNCHANGED <<all_pages, mpc, subq>>
             [] r.kind = "ok" ->
                  /\ all_pages' = [all_pages EXCEPT ![u] = r.node]
                  /\ IF max_depth > 1 /\ r.node.subpages # <<>>
                     THEN /\ mpc' = "subs"
                          /\ subq' = r.node.subpages
                          /\ UNCHANGED cur
                     ELSE /\ cur' = cur + 1
                          /\ UNCHANGED <<mpc, subq>>
    /\ UNCHANGED <<sections, max_depth, use_selenium, wpc, wres, browser, fetches,
                   found>>
    /\ UNCHANGED <<exVars, runVars, fnVars>>

AfterSub ==
    /\ subq' = Tail(subq)
    /\ IF Tail(subq) = <<>>
       THEN mpc' = "wait" /\ cur' = cur + 1
       ELSE UNCHANGED <<mpc, cur>>

\* The next subpage of the current result is in all_pages: not fetched.
MSubSkip ==
    /\ mpc = "subs"
    /\ subq # <<>>
    /\ ~ShouldFetchSub(all_pages, Head(subq))
    /\ AfterSub
    /\ UNCHANGED <<sections, max_depth, use_selenium, wpc, wres, browser, all_pages,
                   fetches, found>>
    /\ UNCHANGED <<exVars, runVars, fnVars>>

\* The next subpage is fetched on the calling thread by
\* extract_subpage_content at depth 1; a None or an exception ("except
\* Exception as e") leaves all_pages as it is.
MSubFetch ==
    /\ mpc = "subs"
    /\ subq # <<>>
    /\ ShouldFetchSub(all_pages, Head(subq))
    /\ LET u == Head(subq)
           nav == GetSoupNavigates(use_selenium, UseSelenium(1))
       IN  IF TooDeep(1, max_depth)
           THEN UNCHANGED <<fetches, browser, all_pages, found>>
           ELSE /\ fetches' = fetches \cup {Fetch(cur, u, 1, nav)}
                /\ browser' = IF nav THEN u ELSE browser
                /\ \E k \in {"ok", "none", "exc"} :
                     IF k = "ok"
                     THEN /\ all_pages' = [all_pages EXCEPT ![u] = Node(u, u, 1)]
                          /\ found' = found \cup Discovered(Node(u, u, 1), 1)
                     ELSE UNCHANGED <<all_pages, found>>
    /\ AfterSub
    /\ UNCHANGED <<sections, max_depth, use_selenium, wpc, wres>>
    /\ UNCHANGED <<exVars, runVars, fnVars>>

\* Every future was taken: the pool is shut down and all_pages returned.
MReturn ==
    /\ mpc = "wait"
    /\ cur > Len(sections)
    /\ \A i \in Tasks : wpc[i] = "done"
    /\ mpc' = "done"
    /\ UNCHANGED <<sections, max_depth, use_selenium, wpc, wres, browser, all_pages,
                   cur, subq, fetches, found>>
    /\ UNCHANGED <<exVars, runVars, fnVars>>

NextSubpages ==
    \/ \E i \in Tasks : WTooDeep(i)
    \/ \E i \in Tasks : WNavigate(i)
    \/ \E i \in Tasks : WNavFails(i)
    \/ \E i \in Tasks : WRead(i)
    \/ \E i \in Tasks : WFallback(i)
    \/ \E i \in Tasks : WStatic(i)
    \/ \E i \in Tasks : WFault(i)
    \/ MResult
    \/ MSubSkip
    \/ MSubFetch
    \/ MReturn

SpecSubpages == InitSubpages /\ [][NextSubpages]_vars

(***************************************************************************)
(* Properties of extract_all_subpages (SpecSubpages).                      *)
(***************************************************************************)
\* C2: at no time are two pool workers both between the navigation of the
\* shared driver and the read of its page source.
C2_OneWorkerInBrowser ==
    Cardinality({i \in Tasks : wpc[i] = "nav"}) <= 1

\* C7: every fetch at depth 1 is of a URL that was absent from all_pages
\* when the fetch started.
C7_NoRefetch ==
    \A f \in fetches : f.depth >= 1 => ~f.inAgg

\* A subpage was fetched at depth 1, and another subpage link, found at
\* depth 1, was passed over because its URL was in all_pages.
C7_Witness ==
    /\ mpc = "done"
    /\ \E f \in fetches : f.depth = 1
    /\ \E d \in found :
          /\ d.depth = 1
          /\ InAgg(all_pages, d.url)
          /\ ~\E f \in fetches : f.depth = 1 /\ f.url = d.url

\* C8: when the call has returned, every page discovered at a depth up to
\* max_depth was fetched, and no fetch was made deeper than max_depth.
C8_TreeCovered ==
    mpc = "done" =>
        /\ \A d \in found :
              d.depth <= max_depth => \E f \in fetches : f.url = d.url
        /\ \A f \in fetches : f.depth <= max_depth

\* C9: dynamic rendering is requested exactly for the fetches at depth 0,
\* and no fetch at depth 1 or more navigates the browser.
C9_DynamicAtDepth0 ==
    \A f \in fetches :
        /\ f.sel <=> (f.depth = 0)
        /\ f.depth >= 1 => ~f.nav

\* With Selenium in use, a section was rendered by the browser and a
\* subpage was fetched at depth 1.
C9_Witness ==
    /\ use_selenium
    /\ \E f \in fetches : f.depth = 0 /\ f.nav
    /\ \E f \in fetches : f.depth = 1

\* C10: when the call has returned, every worker has finished, every future
\* was taken, and every section whose worker gave a node has a node of such a
\* worker under its URL in all_pages.
C10_FailureIsolated ==
    mpc = "done" =>
        \A i \in Tasks :
            /\ wpc[i] = "done"
            /\ wres[i].kind = "ok" =>
                  /\ InAgg(all_pages, sections[i])
                  /\ \E j \in Tasks :
                        /\ sections[j] = sections[i]
                        /\ wres[j].kind = "ok"
                        /\ all_pages[sections[i]] = wres[j].node

\* The first section's worker raised, the second one's gave a node, for
\* another URL, and the call returned.
C10_Witness ==
    /\ mpc = "done"
    /\ wres[1].kind = "exc"
    /\ wres[2].kind = "ok"
    /\ sections[1] # sections[2]

(***************************************************************************)
(* run_full_scrape (scraper.py).  One action per extraction step, each     *)
(* with the save_to_csv / save_to_json calls that follow it.  No step of   *)
(* run_full_scrape is inside a try block except the closing of the driver, *)
(* so an exception raised by an extractor leaves run_full_scrape.          *)
(***************************************************************************)
\* The keys of self.extracted_data that run_full_scrape's steps set.
DataKeys ==
    {"sections", "news", "research_groups", "publications", "staff",
     "contact_info", "projects", "project_contents", "all_pages"}

\* The order of the extractor calls in run_full_scrape.
RunOrder ==
    <<"sections", "news", "research_groups", "publications", "staff",
      "contact_info", "projects", "project_contents", "all_pages", "clean",
      "close">>

\* The extractor calls that are not inside any try block.
Unguarded ==
    {"sections", "news", "research_groups", "publications", "staff",
     "contact_info", "projects", "project_contents"}

\* What an extractor returns: a non-empty or an empty collection.
Outcomes == {"data", "empty"}

\* dict.get(key): None when the key was never set.
Get(d, key) == d[key]

\* "if not data: return" of save_to_csv and save_to_json.
Truthy(v) == v = "data"

\* save_to_csv(data, name) and, if save_json, save_to_json(data, name).
\* contact_info is passed to save_to_csv as [contact_info], a non-empty list.
Saves(name, v, csv) ==
    (IF csv = "always" \/ (csv = "data" /\ Truthy(v))
     THEN {<<name, "csv">>} ELSE {})
    \cup (IF opts.save_json /\ Truthy(v) THEN {<<name, "json">>} ELSE {})

\* What an exception raised by an extractor does to run_full_scrape:
\* it leaves the function.
OnFault(next) == "raised"

InitRun ==
    /\ opts \in [include_subpages : BOOLEAN, save_json : BOOLEAN,
                 extract_content : BOOLEAN, use_selenium : BOOLEAN]
    /\ rpc = "sections"
    /\ extracted_data = [k \in DataKeys |-> None]
    /\ completed = <<>>
    /\ hints = [called |-> FALSE, staff |-> None, sections |-> None,
                after |-> <<>>]
    /\ faulted = {}
    /\ saved = {}
    \* _setup_selenium may fail and leave driver = None
    /\ driver \in (IF opts.use_selenium THEN {"open", "none"} ELSE {"none"})
    /\ kind = None /\ limit = 0 /\ xpc = "idle" /\ fetchLog = <<>>
    /\ branch = None /\ sidx = 0 /\ recs = <<>> /\ ran = <<>>
    /\ contact = <<>> /\ result = None
    /\ sections = <<>> /\ max_depth = 0 /\ use_selenium = FALSE
    /\ wpc = <<>> /\ wres = <<>> /\ browser = 0 /\ all_pages = <<>>
    /\ mpc = "idle" /\ cur = 0 /\ subq = <<>> /\ fetches = {} /\ found = {}
    /\ fn = None /\ arg = <<>> /\ ret = <<>> /\ ret2 = <<>> /\ ppc = "idle"

\* self.extract_X() stores its return value, then run_full_scrape saves it.
Step(name, next, csv) ==
    /\ rpc = name
    /\ \E v \in Outcomes :
         /\ extracted_data' = [extracted_data EXCEPT ![name] = v]
         /\ saved' = saved \cup Saves(name, v, csv)
    /\ completed' = Append(completed, name)
    /\ rpc' = next
    /\ UNCHANGED <<opts, faulted, driver>>
    /\ UNCHANGED <<exVars, subVars, fnVars>>

ExtractSections == Step("sections", "news", "data") /\ UNCHANGED hints

ExtractNews == Step("news", "research_groups", "data") /\ UNCHANGED hints

\* extract_research_groups passes extracted_data.get('staff') and
\* extracted_data.get('sections') as they are when it is called.
ExtractResearchGroups ==
    /\ Step("research_groups", "publications", "data")
    /\ hints' = [called |-> TRUE,
                 staff |-> Get(extracted_data, "staff"),
                 sections |-> Get(extracted_data, "sections"),
                 after |-> completed]

ExtractPublications == Step("publications", "staff", "data") /\ UNCHANGED hints

ExtractStaff == Step("staff", "contact_info", "data") /\ UNCHANGED hints

ExtractContactInfo == Step("contact_info", "projects", "always") /\ UNCHANGED hints

ExtractProjects == Step("projects", "project_contents", "data") /\ UNCHANGED hints

\* if extract_content and projects: extract and, if save_json, save as JSON
ExtractProjectContents ==
    /\ rpc = "project_contents"
    /\ opts.extract_content /\ Truthy(extracted_data["projects"])
    /\ Step("project_contents", "all_pages", "no")
    /\ UNCHANGED hints

SkipProjectContents ==
    /\ rpc = "project_contents"
    /\ ~(opts.extract_content /\ Truthy(extracted_data["projects"]))
    /\ rpc' = "all_pages"
    /\ UNCHANGED <<opts, extracted_data, completed, hints, faulted, saved, driver>>
    /\ UNCHANGED <<exVars, subVars, fnVars>>

\* if include_subpages: extract_all_subpages, which catches its workers'
\* exceptions itself
ExtractAllPages ==
    /\ rpc = "all_pages"
    /\ opts.include_subpages
    /\ Step("all_pages", "clean", "no")
    /\ UNCHANGED hints

SkipAllPages ==
    /\ rpc = "all_pages"
    /\ ~opts.include_subpages
    /\ rpc' = "clean"
    /\ UNCHANGED <<opts, extracted_data, completed, hints, faulted, saved, driver>>
    /\ UNCHANGED <<exVars, subVars, fnVars>>

\* clean_and_normalize_data keeps the non-empty data types; save all_data
CleanAndSave ==
    /\ rpc = "clean"
    /\ LET cleaned == {k \in DataKeys : Truthy(extracted_data[k])}
       IN saved' = saved \cup
              (IF opts.save_json /\ cleaned # {}
               THEN {<<"all_data", "json">>} ELSE {})
    /\ completed' = Append(completed, "clean")
    /\ rpc' = "close"
    /\ UNCHANGED <<opts, extracted_data, hints, faulted, driver>>
    /\ UNCHANGED <<exVars, subVars, fnVars>>

\* if self.use_selenium: session_manager.close(); return cleaned_data
CloseAndReturn ==
    /\ rpc = "close"
    /\ driver' = IF opts.use_selenium /\ driver = "open" THEN "closed"
                 ELSE driver
    /\ rpc' = "returned"
    /\ UNCHANGED <<opts, extracted_data, completed, hints, faulted, saved>>
    /\ UNCHANGED <<exVars, subVars, fnVars>>

\* The extractor that is running raises: nothing of it is stored or saved.
Fault ==
    /\ rpc \in Unguarded
    /\ rpc = "project_contents" =>
          opts.extract_content /\ Truthy(extracted_data["projects"])
    /\ faulted' = faulted \cup {rpc}
    /\ \E j \in 1..(Len(RunOrder) - 1) :
         /\ RunOrder[j] = rpc
         /\ rpc' = OnFault(RunOrder[j + 1])
    /\ UNCHANGED <<opts, extracted_data, completed, hints, saved, driver>>
    /\ UNCHANGED <<exVars, subVars, fnVars>>

NextRun ==
    \/ ExtractSections
    \/ ExtractNews
    \/ ExtractResearchGroups
    \/ ExtractPublications
    \/ ExtractStaff
    \/ ExtractContactInfo
    \/ ExtractProjects
    \/ ExtractProjectContents
    \/ SkipProjectContents
    \/ ExtractAllPages
    \/ SkipAllPages
    \/ CleanAndSave
    \/ CloseAndReturn
    \/ Fault

SpecRun == InitRun /\ [][NextRun]_vars

(***************************************************************************)
(* Properties of run_full_scrape (SpecRun).                                *)
(***************************************************************************)
\* C3: an extractor that raises does not end run_full_scrape: the exception
\* does not leave the function.
C3_FaultDoesNotPropagate ==
    faulted # {} => rpc # "raised"

\* C6: when the research-groups extractor was called, the sections and the
\* staff extractors had completed, and neither hint passed to it is None.
C6_HintsFromEarlierExtractors ==
    hints.called =>
        /\ \E i \in 1..Len(hints.after) : hints.after[i] = "sections"
        /\ \E i \in 1..Len(hints.after) : hints.after[i] = "staff"
        /\ hints.sections # None
        /\ hints.staff # None

\* C16: every file written was written after clean_and_normalize_data ran.
C16_SavedAfterNormalization ==
    \A f \in saved : \E i \in 1..Len(completed) : completed[i] = "clean"

(***************************************************************************)
(* The fields of the records the extractors build (project_contents.py,    *)
(* staff.py, projects.py).  A record is modelled by the set of its keys.   *)
(***************************************************************************)
\* The variables of the other specifications, at rest.
OthersIdle ==
    /\ kind = None /\ limit = 0 /\ xpc = "idle" /\ fetchLog = <<>>
    /\ branch = None /\ sidx = 0 /\ recs = <<>> /\ ran = <<>>
    /\ contact = <<>> /\ result = None
    /\ sections = <<>> /\ max_depth = 0 /\ use_selenium = FALSE
    /\ wpc = <<>> /\ wres = <<>> /\ browser = 0 /\ all_pages = <<>>
    /\ mpc = "idle" /\ cur = 0 /\ subq = <<>> /\ fetches = {} /\ found = {}
    /\ rpc = "idle" /\ opts = <<>> /\ extracted_data = <<>> /\ completed = <<>>
    /\ hints = <<>> /\ faulted = {} /\ saved = {} /\ driver = "none"

\* The fields the specification declares for each entity type (the keys the
\* consumers of the records read).
Declared(e) ==
    CASE e = "project_content" ->
            {"title", "full_content", "sections", "images", "funding_info",
             "period_info", "team_members"}
      [] e = "staff" ->
            {"name", "position", "email", "phone", "department", "source_url"}
      [] e = "project" ->
            {"title", "description", "period", "funding", "url",
             "principal_investigator"}

StaffOptional == {"position", "email", "phone", "department"}

\* extract_project_contents: content = {}; title, full_content, sections and
\* images are always set; funding_info, period_info and team_members only
\* "if funding:", "if period:", "if team:".
ContentKeys(a) ==
    {"title", "full_content", "sections", "images"}
    \cup (IF a.funding THEN {"funding_info"} ELSE {})
    \cup (IF a.period THEN {"period_info"} ELSE {})
    \cup (IF a.team THEN {"team_members"} ELSE {})

\* extract_staff, table strategy: person gets the mapped columns, an email
\* from a mailto link, then the missing ones of position, email, phone,
\* department as "", then source_url. The other strategies append a dict
\* literal with the six keys.
StaffKeys(a) ==
    IF a.strategy = "tables"
    THEN LET person == {"name"} \cup a.mapped
                       \cup (IF a.mailto THEN {"email"} ELSE {})
         IN  person \cup StaffOptional \cup {"source_url"}
    ELSE {"name", "position", "email", "phone", "department", "source_url"}

\* extract_staff, unique_staff: "if field not in person: person[field] = ''".
StaffEnsure(keys) ==
    keys \cup {"position", "email", "phone", "department", "source_url"}

\* extract_projects: every strategy appends a dict literal with the six
\* keys; normalized_projects adds the missing ones as "".
ProjectKeys(a) ==
    {"title", "description", "principal_investigator", "period", "funding",
     "url"}

ProjectEnsure(keys) ==
    keys \cup {"title", "description", "period", "funding", "url",
               "principal_investigator"}

InitRecords ==
    /\ fn \in {"project_content", "staff", "project"}
    /\ arg \in
         CASE fn = "project_content" ->
                 [title_elem : BOOLEAN, main_elem : BOOLEAN, funding : BOOLEAN,
                  period : BOOLEAN, team : BOOLEAN]
           [] fn = "staff" ->
                 [strategy : {"tables"}, mapped : SUBSET StaffOptional,
                  mailto : BOOLEAN]
                 \cup [strategy : {"containers", "lists", "text"},
                       mapped : {{}}, mailto : {FALSE}]
           [] fn = "project" ->
                 [strategy : {"sections", "links", "containers", "text"}]
    /\ ret = <<>> /\ ret2 = <<>> /\ ppc = "start"
    /\ OthersIdle

BuildContent ==
    /\ ppc = "start" /\ fn = "project_content"
    /\ ret' = ContentKeys(arg)
    /\ ppc' = "done"
    /\ UNCHANGED <<fn, arg, ret2>>
    /\ UNCHANGED <<exVars, subVars, runVars>>

BuildStaff ==
    /\ ppc = "start" /\ fn = "staff"
    /\ ret' = StaffEnsure(StaffKeys(arg))
    /\ ppc' = "done"
    /\ UNCHANGED <<fn, arg, ret2>>
    /\ UNCHANGED <<exVars, subVars, runVars>>

BuildProject ==
    /\ ppc = "start" /\ fn = "project"
    /\ ret' = ProjectEnsure(ProjectKeys(arg))
    /\ ppc' = "done"
    /\ UNCHANGED <<fn, arg, ret2>>
    /\ UNCHANGED <<exVars, subVars, runVars>>

NextRecords ==
    \/ BuildContent
    \/ BuildStaff
    \/ BuildProject

SpecRecords == InitRecords /\ [][NextRecords]_vars

\* C11: every record built has every field declared for its entity type.
C11_DeclaredFieldsPresent ==
    ppc = "done" => Declared(fn) \subseteq ret

(***************************************************************************)
(* clean_data (utils/parsers.py).                                          *)
(*                                                                         *)
(* A string is a sequence of runs [c, n]: n copies of the character c,     *)
(* adjacent runs having different characters, so that strings longer than  *)
(* the caps of the code are values TLC can handle.                         *)
(***************************************************************************)
MaxItems == 2      \* items in a list-typed entity

TopCap == 10000    \* "if len(value) > 10000"

NestedCap == 5000  \* "if len(item) > 5000"

Run(c, n) == [c |-> c, n |-> n]

\* "..."
Marker == <<Run(".", 3)>>

\* The characters \s matches.
IsSpace(c) == c \in {" ", "\n"}

\* The characters \W matches.
IsNonWord(c) == c \in {" ", "\n", ".", "-"}

RECURSIVE StrLen(_)
StrLen(s) == IF s = <<>> THEN 0 ELSE Head(s).n + StrLen(Tail(s))

\* s + t
Concat(s, t) ==
    IF s = <<>> THEN t
    ELSE IF t = <<>> THEN s
    ELSE IF s[Len(s)].c = Head(t).c
         THEN SubSeq(s, 1, Len(s) - 1)
              \o <<Run(Head(t).c, s[Len(s)].n + Head(t).n)>> \o Tail(t)
         ELSE s \o t

\* s[:n]
RECURSIVE Prefix(_, _)
Prefix(s, n) ==
    IF s = <<>> \/ n <= 0 THEN <<>>
    ELSE IF Head(s).n >= n THEN <<Run(Head(s).c, n)>>
    ELSE <<Head(s)>> \o Prefix(Tail(s), n - Head(s).n)

\* re.sub(r'\s+', ' ', s)
RECURSIVE CollapseSpace(_)
CollapseSpace(s) ==
    IF s = <<>> THEN <<>>
    ELSE IF IsSpace(Head(s).c)
         THEN IF Tail(s) # <<>> /\ IsSpace(Head(Tail(s)).c)
              THEN CollapseSpace(Tail(s))
              ELSE <<Run(" ", 1)>> \o CollapseSpace(Tail(s))
         ELSE <<Head(s)>> \o CollapseSpace(Tail(s))

\* s.strip()
RECURSIVE Strip(_)
Strip(s) ==
    IF s = <<>> THEN <<>>
    ELSE IF IsSpace(Head(s).c) THEN Strip(Tail(s))
    ELSE IF IsSpace(s[Len(s)].c) THEN Strip(SubSeq(s, 1, Len(s) - 1))
    ELSE s

\* value = re.sub(r'\s+', ' ', value).strip()
\* if len(value) > cap: value = value[:cap] + "..."
CleanStrMarkerFirst(s, cap) ==
    LET c == Strip(CollapseSpace(s))
    IN  IF StrLen(c) > cap THEN Concat(Marker, Prefix(c, cap)) ELSE c

CleanStr(s, cap) ==
    LET c == Strip(CollapseSpace(s))
    IN  IF StrLen(c) > cap THEN Concat(Prefix(c, cap), Marker) ELSE c

\* Python values: t is the type, s the text of a string (or the str() of a
\* value of a type that is none of str, int, float, bool, list, dict, None),
\* kv the items of a list or the key/value pairs of a dict, in order.
Str(s) == [t |-> "str", s |-> s, kv |-> <<>>]

Num == [t |-> "num", s |-> <<>>, kv |-> <<>>]

NoneV == [t |-> "none", s |-> <<>>, kv |-> <<>>]

Obj(r) == [t |-> "obj", s |-> r, kv |-> <<>>]

ListV(items) == [t |-> "list", s |-> <<>>, kv |-> items]

KV(k, v) == [k |-> k, v |-> v]

DictV(pairs) == [t |-> "dict", s |-> <<>>, kv |-> pairs]

\* "if not data: continue" (numbers of the model are non-zero)
Falsy(v) ==
    \/ v.t = "none"
    \/ v.t \in {"list", "dict"} /\ v.kv = <<>>
    \/ v.t = "str" /\ v.s = <<>>

\* parsers.py 37-51: a value of an item of a list-typed entity
CleanItemValue(v) ==
    IF v.t \in {"obj", "str"} THEN Str(CleanStr(v.s, TopCap)) ELSE v

\* parsers.py 33-53: an item of a list-typed entity (a dict)
CleanItem(item) ==
    DictV([j \in 1..Len(item.kv) |->
              KV(item.kv[j].k, CleanItemValue(item.kv[j].v))])

\* parsers.py 30-55
CleanListEntity(data) ==
    ListV([i \in 1..Len(data.kv) |-> CleanItem(data.kv[i])])

\* parsers.py 63-72: a dict inside a dict-typed entity
CleanSubDict(v) ==
    DictV([j \in 1..Len(v.kv) |->
              KV(v.kv[j].k,
                 IF v.kv[j].v.t = "str"
                 THEN Str(CleanStr(v.kv[j].v.s, TopCap))
                 ELSE v.kv[j].v)])

\* parsers.py 81-91: a dict inside a list inside a dict-typed entity
CleanListedDict(v) ==
    DictV([j \in 1..Len(v.kv) |->
              KV(v.kv[j].k,
                 IF v.kv[j].v.t = "str"
                 THEN Str(CleanStr(v.kv[j].v.s, NestedCap))
                 ELSE v.kv[j].v)])

\* parsers.py 73-93: a list inside a dict-typed entity
CleanSubList(v) ==
    ListV([i \in 1..Len(v.kv) |->
              IF v.kv[i].t = "str" THEN Str(CleanStr(v.kv[i].s, NestedCap))
              ELSE IF v.kv[i].t = "dict" THEN CleanListedDict(v.kv[i])
              ELSE v.kv[i]])

\* parsers.py 61-101: a value of a dict-typed entity
CleanDictValue(v) ==
    IF v.t = "dict" THEN CleanSubDict(v)
    ELSE IF v.t = "list" THEN CleanSubList(v)
    ELSE IF v.t = "str" THEN Str(CleanStr(v.s, TopCap))
    ELSE v

\* parsers.py 57-103
CleanDictEntity(data) ==
    DictV([j \in 1..Len(data.kv) |->
              KV(data.kv[j].k, CleanDictValue(data.kv[j].v))])

\* "for key, value in item.items()" raises AttributeError for an item that
\* is not a dict.
EntityRaises(data) ==
    /\ ~Falsy(data)
    /\ data.t = "list"
    /\ \E i \in 1..Len(data.kv) : data.kv[i].t # "dict"

CleanRaises(agg) == \E e \in 1..Len(agg) : EntityRaises(agg[e].v)

\* The entries clean_data copies: the non-empty lists and dicts.
RECURSIVE clean_data(_)
clean_data(agg) ==
    IF agg = <<>> THEN <<>>
    ELSE LET data == Head(agg).v
         IN  IF Falsy(data) \/ data.t \notin {"list", "dict"}
             THEN clean_data(Tail(agg))
             ELSE <<KV(Head(agg).k,
                       IF data.t = "list" THEN CleanListEntity(data)
                       ELSE CleanDictEntity(data))>>
                  \o clean_data(Tail(agg))

\* The inputs: strings short and long, with spaces to collapse and strip,
\* and with a space where the cut falls.
SampleStrings ==
    { <<Run("a", 1)>>,
      <<Run("A", 1)>>,
      <<Run(" ", 1), Run("a", 1), Run("\n", 1), Run(" ", 2), Run("A", 1), Run(" ", 1)>>,
      <<Run("a", 12000)>>,
      <<Run("a", 6000)>>,
      <<Run("a", 9999), Run(" ", 3), Run("a", 5)>> }

SampleObj == Obj(<<Run(" ", 2), Run("a", 12000)>>)

Leaves == {Str(s) : s \in SampleStrings} \cup {Num, NoneV, SampleObj}

FieldValues ==
    Leaves
    \cup {ListV(<<Str(<<Run("a", 6000)>>)>>), ListV(<<SampleObj>>),
          DictV(<<KV("x", Str(<<Run("a", 6000)>>))>>)}

Items ==
    {DictV(<<KV("title", Str(<<Run(c, 1)>>)), KV("extra", x)>>) :
        c \in {"a", "A"}, x \in FieldValues}
    \cup {Str(<<Run("a", 1)>>)}

ListEntities == {ListV(q) : q \in SeqsUpTo(Items, MaxItems)}

DictEntities ==
    {DictV(<<KV("k", x)>>) :
        x \in FieldValues
              \cup {DictV(<<KV("x", Str(<<Run("a", 12000)>>))>>),
                    DictV(<<KV("x", SampleObj)>>),
                    ListV(<<DictV(<<KV("x", Str(<<Run(" ", 1), Run("a", 6000)>>))>>)>>)}}

Aggregates ==
    {<<KV("entity", x)>> :
        x \in ListEntities \cup DictEntities \cup {Str(<<Run("a", 1)>>), Num}}

InitClean ==
    /\ fn = "clean_data"
    /\ arg \in Aggregates
    /\ ret = <<>> /\ ret2 = <<>> /\ ppc = "start"
    /\ OthersIdle

\* cleaned_data = clean_data(extracted_data)
Clean ==
    /\ ppc = "start" /\ fn = "clean_data"
    /\ ~CleanRaises(arg)
    /\ ret' = clean_data(arg)
    /\ ppc' = "done"
    /\ UNCHANGED <<fn, arg, ret2>>
    /\ UNCHANGED <<exVars, subVars, runVars>>

\* item.items() raises inside clean_data
CleanFails ==
    /\ ppc = "start" /\ fn = "clean_data"
    /\ CleanRaises(arg)
    /\ ppc' = "raised"
    /\ UNCHANGED <<fn, arg, ret, ret2>>
    /\ UNCHANGED <<exVars, subVars, runVars>>

\* clean_data(cleaned_data)
CleanAgain ==
    /\ ppc = "done" /\ fn = "clean_data"
    /\ ~CleanRaises(ret)
    /\ ret2' = clean_data(ret)
    /\ ppc' = "again"
    /\ UNCHANGED <<fn, arg, ret>>
    /\ UNCHANGED <<exVars, subVars, runVars>>

NextClean ==
    \/ Clean
    \/ CleanFails
    \/ CleanAgain

SpecClean == InitClean /\ [][NextClean]_vars

(***************************************************************************)
(* Properties of clean_data (SpecClean).                                   *)
(***************************************************************************)
\* The values directly inside a list or a dict.
Sub(v) ==
    IF v.t = "list" THEN {v.kv[i] : i \in 1..Len(v.kv)}
    ELSE IF v.t = "dict" THEN {v.kv[i].v : i \in 1..Len(v.kv)}
    ELSE {}

RECURSIVE Under(_)
Under(v) == {v} \cup UNION {Under(w) : w \in Sub(v)}

\* The records of an aggregate: the items of its list-typed entities and
\* its dict-typed entities themselves.
RecordsOf(agg) ==
    UNION {IF agg[e].v.t = "list" THEN Sub(agg[e].v) ELSE {agg[e].v} :
              e \in 1..Len(agg)}

\* The top-level field values of the records, and the values nested in them.
TopValues(agg) == UNION {Sub(r) : r \in RecordsOf(agg)}

NestedValues(agg) ==
    UNION {Under(w) : w \in UNION {Sub(f) : f \in TopValues(agg)}}

\* The normalized identifying key: lower case, runs of non-word characters
\* collapsed to one space, stripped (as staff.py 276, projects.py 307).
RECURSIVE Canon(_)
Canon(s) == IF s = <<>> THEN <<>> ELSE Concat(<<Head(s)>>, Canon(Tail(s)))

NormKey(s) ==
    Strip(CollapseSpace(Canon(
        [i \in 1..Len(s) |->
            Run(IF IsNonWord(s[i].c) THEN " "
                ELSE IF s[i].c = "A" THEN "a" ELSE s[i].c,
                s[i].n)])))

TitleOf(item) ==
    LET i == CHOOSE j \in 1..Len(item.kv) : item.kv[j].k = "title"
    IN  NormKey(item.kv[i].v.s)

\* C12: in the output of clean_data no two records of a list-typed entity
\* have the same normalized title.
C12_DedupByNormalizedKey ==
    ppc = "done" =>
        \A e \in 1..Len(ret) :
            ret[e].v.t = "list" =>
                \A i, j \in 1..Len(ret[e].v.kv) :
                    i < j => TitleOf(ret[e].v.kv[i]) # TitleOf(ret[e].v.kv[j])

\* C13: in the output of clean_data every top-level string is at most
\* 10000 characters plus the marker and every nested string at most 5000
\* characters plus the marker.
C13_LengthCaps ==
    ppc = "done" =>
        /\ \A v \in TopValues(ret) :
              v.t = "str" => StrLen(v.s) <= TopCap + StrLen(Marker)
        /\ \A v \in NestedValues(ret) :
              v.t = "str" => StrLen(v.s) <= NestedCap + StrLen(Marker)

\* C14: clean_data applied to its own output returns that output.
C14_Idempotent ==
    ppc = "again" => ret2 = ret

\* clean_data was applied twice to an aggregate with a string it cut at the
\* cap and marked.
C14_Witness ==
    /\ ppc = "again"
    /\ \E v \in TopValues(ret) :
          /\ v.t = "str"
          /\ StrLen(v.s) = TopCap + StrLen(Marker)
          /\ v \notin TopValues(arg)

\* C15: clean_data does not raise, and no value of its output, at top level
\* or nested, is of a type other than str, number, bool, None, list, dict.
C15_NeverFailsAndStringifies ==
    /\ ppc # "raised"
    /\ ppc = "done" =>
          \A v \in TopValues(ret) \cup NestedValues(ret) : v.t # "obj"

(***************************************************************************)
(* extract_staff on a page with one table (staff.py 49-131, 270-289).      *)
(* The rows of the input carry no mailto link.                             *)
(***************************************************************************)
MaxCols == 3       \* cells in a table row
MaxDataRows == 2   \* rows of the table after its first row

\* The texts of the cells of a first row, lower-cased.
HeaderWords == {"name", "position", "email", "nombre", "cargo", "color"}

\* The texts of the first cell of the other rows.
DataNames == {"", "ana", "bob"}

\* "keyword in header" for the keywords of staff.py 76-93.
Contains(header, keyword) == header = keyword

\* is_staff_table: any(keyword in " ".join(headers).lower() for keyword in
\* ['name', 'position', 'email', 'phone', 'department'])
IsStaffTable(headers) ==
    \E i \in 1..Len(headers) :
        \E kw \in {"name", "position", "email", "phone", "department"} :
            Contains(headers[i], kw)

\* The field one header maps to (the if/elif chain of staff.py 85-94).
MapField(header) ==
    IF \E w \in {"name", "nombre"} : Contains(header, w) THEN "name"
    ELSE IF \E w \in {"position", "cargo", "puesto"} : Contains(header, w)
         THEN "position"
    ELSE IF \E w \in {"email", "e-mail", "correo"} : Contains(header, w)
         THEN "email"
    ELSE IF \E w \in {"phone", "telefono", "teléfono"} : Contains(header, w)
         THEN "phone"
    ELSE IF \E w \in {"department", "departamento", "group", "grupo"} :
              Contains(header, w)
         THEN "department"
    ELSE None

StaffFields == {"name", "position", "email", "phone", "department"}

\* header_mapping: field -> index of the last header that maps to it
\* (0: the field is not mapped).
HeaderMapping(headers) ==
    [f \in StaffFields |->
        LET idx == {i \in 1..Len(headers) : MapField(headers[i]) = f}
        IN  IF idx = {} THEN 0 ELSE CHOOSE i \in idx : \A j \in idx : j <= i]

\* The tr elements of the table and the td cells of each: the first row's
\* cells are the headers; each other row has the name in its first cell.
TableRows(t) ==
    <<t.headers>>
    \o [r \in 1..Len(t.names) |->
           [i \in 1..Len(t.headers) |-> IF i = 1 THEN t.names[r] ELSE "x"]]

\* row.select('td'): a row of th cells has no td cell.
TdCells(t, r) == IF r = 1 /\ t.th THEN <<>> ELSE TableRows(t)[r]

\* start_idx = 1 if header_cells else 0
StartIdx(t) == IF t.th THEN 2 ELSE 1

\* The persons one row appends to staff (staff.py 103-131): one, or none if
\* the row is skipped.
Person(t, m, r) ==
    LET cells == TdCells(t, r)
        need == CHOOSE x \in {m[f] : f \in StaffFields} :
                    \A f \in StaffFields : m[f] <= x
        val(f) == IF m[f] # 0 /\ m[f] <= Len(cells) THEN cells[m[f]] ELSE ""
    IN  IF Len(cells) < need \/ val("name") = "" THEN <<>>
        ELSE <<[name |-> val("name"), position |-> val("position"),
                email |-> val("email"), phone |-> val("phone"),
                department |-> val("department"), source_url |-> t.url]>>

\* Strategy 1 on the table: the persons of its rows, in order.
RECURSIVE PersonsFrom(_, _, _)
PersonsFrom(t, m, r) ==
    IF r > Len(TableRows(t)) THEN <<>>
    ELSE Person(t, m, r) \o PersonsFrom(t, m, r + 1)

StaffFromTable(t) ==
    IF Len(TableRows(t)) < 3 THEN <<>>
    ELSE IF ~IsStaffTable(t.headers) THEN <<>>
    ELSE IF HeaderMapping(t.headers)["name"] = 0 THEN <<>>
    ELSE PersonsFrom(t, HeaderMapping(t.headers), StartIdx(t))

\* unique_staff: the first person of each normalized name
RECURSIVE UniqueStaff(_, _)
UniqueStaff(staff, seen) ==
    IF staff = <<>> THEN <<>>
    ELSE IF Head(staff).name # "" /\ Head(staff).name \notin seen
         THEN <<Head(staff)>> \o UniqueStaff(Tail(staff), seen \cup {Head(staff).name})
         ELSE UniqueStaff(Tail(staff), seen)

InitStaffTable ==
    /\ fn = "extract_staff"
    /\ arg \in [th : BOOLEAN, url : {"u1", "u2"},
                headers : SeqsUpTo(HeaderWords, MaxCols) \ {<<>>},
                names : SeqsUpTo(DataNames, MaxDataRows)]
    /\ ret = <<>> /\ ret2 = <<>> /\ ppc = "start"
    /\ OthersIdle

\* The page has no staff container, list or text pattern: a table that
\* gives no person leaves the result empty.
ExtractStaffTable ==
    /\ ppc = "start" /\ fn = "extract_staff"
    /\ ret' = UniqueStaff(StaffFromTable(arg), {})
    /\ ppc' = "done"
    /\ UNCHANGED <<fn, arg, ret2>>
    /\ UNCHANGED <<exVars, subVars, runVars>>

NextStaffTable == ExtractStaffTable

SpecStaffTable == InitStaffTable /\ [][NextStaffTable]_vars

(***************************************************************************)
(* Properties of the staff table strategy (SpecStaffTable).                *)
(***************************************************************************)
\* C17: a table of at least 3 rows whose data rows all have a name gives
\* records exactly when a name column is mapped from its header row, in
\* either language.
C17_TableRecognized ==
    (/\ ppc = "done"
     /\ Len(arg.names) >= 2
     /\ \A r \in 1..Len(arg.names) : arg.names[r] # "")
    => (ret # <<>> <=> HeaderMapping(arg.headers)["name"] # 0)

\* C18: a table with the header row Name, Position, Email and k >= 2 data
\* rows of distinct non-empty names gives exactly k records, each with the
\* fetched URL as source_url and empty phone and department.
C18_OneRecordPerDataRow ==
    (/\ ppc = "done"
     /\ arg.headers = <<"name", "position", "email">>
     /\ Len(arg.names) >= 2
     /\ \A r \in 1..Len(arg.names) : arg.names[r] # ""
     /\ \A r, q \in 1..Len(arg.names) : r # q => arg.names[r] # arg.names[q])
    => /\ Len(ret) = Len(arg.names)
       /\ \A i \in 1..Len(ret) :
             /\ ret[i].source_url = arg.url
             /\ ret[i].phone = ""
             /\ ret[i].department = ""

(***************************************************************************)
(* The project filters (projects.py 284-381).  A text is the set of the    *)
(* words it is made of.                                                    *)
(***************************************************************************)
TitleWords == {"web", "project", "2020", "EU", "alpha"}

DescWords == {"research", "EU", "LEER MÁS", "long"}

\* len(word); "long" stands for a text of 50 characters or more
WordLen(w) ==
    CASE w = "web" -> 3
      [] w = "project" -> 7
      [] w = "2020" -> 4
      [] w = "EU" -> 2
      [] w = "alpha" -> 5
      [] w = "research" -> 8
      [] w = "LEER MÁS" -> 8
      [] w = "long" -> 50

\* len(text): the words and the spaces between them
RECURSIVE TextLen(_)
TextLen(ws) ==
    IF ws = {} THEN 0
    ELSE LET w == CHOOSE x \in ws : TRUE
         IN  WordLen(w) + (IF ws = {w} THEN 0 ELSE 1 + TextLen(ws \ {w}))

\* text.lower()
Lower(w) == IF w = "EU" THEN "eu" ELSE IF w = "LEER MÁS" THEN "leer más" ELSE w

exclude_terms ==
    {"áreas", "areas", "introducción", "introduction", "listado", "list",
     "qué hacemos", "what we do", "webs", "web", "video", "formación",
     "training", "nueva directora", "director", "11 de febrero", "día",
     "day", "niña", "girl", "science", "publicaciones", "publications",
     "recientes", "recent", "institucional", "institutional",
     "relacionadas", "related"}

title_indicators ==
    {"proyecto", "project", "grant", "financiado", "funded", "investigación",
     "research", "desarrollo", "development", "ministerio", "european", "EU",
     "nacional", "TEC", "RTI"}

description_indicators ==
    {"proyecto", "project", "grant", "financiado", "funded", "investigación",
     "research", "desarrollo", "development", "ministerio", "european", "EU",
     "nacional"}

\* any(term in text.lower() for term in terms)
AnyIn(terms, text) == \E w \in text : Lower(w) \in terms

\* re.search(r'\d{4}', title)
HasYear(title) == "2020" \in title

is_valid_project_title(title) ==
    IF AnyIn(exclude_terms, title) THEN FALSE
    ELSE AnyIn(title_indicators, title) \/ HasYear(title)

is_valid_project(p) ==
    IF p.title = {} THEN FALSE
    ELSE IF /\ ~is_valid_project_title(p.title)
            /\ ~(p.description # {} /\ AnyIn(description_indicators, p.description))
         THEN FALSE
    ELSE IF /\ TextLen(p.description) < 50
            /\ ~p.period
            /\ ~p.funding
            /\ "LEER MÁS" \in p.description
         THEN FALSE
    ELSE TRUE

\* extract_projects 297-311 on the projects a strategy collected: a title of
\* more than 3 characters, and a non-empty normalized title not seen before.
RECURSIVE unique_projects(_, _)
unique_projects(projects, seen) ==
    IF projects = <<>> THEN <<>>
    ELSE LET p == Head(projects)
         IN  IF p.title # {} /\ TextLen(p.title) > 3 /\ p.title \notin seen
             THEN <<p>> \o unique_projects(Tail(projects), seen \cup {p.title})
             ELSE unique_projects(Tail(projects), seen)

Projects ==
    [title : SUBSET TitleWords, description : SUBSET DescWords,
     period : BOOLEAN, funding : BOOLEAN]

InitProjectFilter ==
    /\ fn \in {"is_valid_project", "extract_projects"}
    /\ arg \in Projects
    /\ ret = <<>> /\ ret2 = <<>> /\ ppc = "start"
    /\ OthersIdle

\* is_valid_project(project)
CallIsValidProject ==
    /\ ppc = "start" /\ fn = "is_valid_project"
    /\ ret' = <<is_valid_project(arg)>>
    /\ ppc' = "done"
    /\ UNCHANGED <<fn, arg, ret2>>
    /\ UNCHANGED <<exVars, subVars, runVars>>

\* extract_projects, from the projects its strategies collected to its
\* return value
ReturnProjects ==
    /\ ppc = "start" /\ fn = "extract_projects"
    /\ ret' = unique_projects(<<arg>>, {})
    /\ ppc' = "done"
    /\ UNCHANGED <<fn, arg, ret2>>
    /\ UNCHANGED <<exVars, subVars, runVars>>

NextProjectFilter ==
    \/ CallIsValidProject
    \/ ReturnProjects

SpecProjectFilter == InitProjectFilter /\ [][NextProjectFilter]_vars

\* A title with a blocklisted term is let through only by a project
\* indicator in the description or a 4-digit year in the title.
Excepted(p) ==
    AnyIn(description_indicators, p.description) \/ HasYear(p.title)

\* C19: extract_projects returns no project with a blocklisted title that
\* is not excepted, and is_valid_project rejects a project with a
\* blocklisted title exactly when it is not excepted.
C19_BlocklistedTitles ==
    ppc = "done" =>
        /\ fn = "extract_projects" =>
              \A i \in 1..Len(ret) :
                  AnyIn(exclude_terms, ret[i].title) => Excepted(ret[i])
        /\ (fn = "is_valid_project" /\ AnyIn(exclude_terms, arg.title)) =>
              (ret[1] = FALSE <=> ~Excepted(arg))

(***************************************************************************)
(* extract_publications on a fetched page whose publications are in        *)
(* containers (publications.py 46-89, 192-205).  The page has no text      *)
(* pattern match and no PDF link, so strategies 2 and 3 add nothing.       *)
(***************************************************************************)
MaxContainers == 4     \* publication containers on the page

DefaultLimit == 50     \* extract_publications(..., limit=50)

FewContainers == 3     \* "len(pub_containers) > 3"

\* What the regular expressions find in one container's text.
Candidates == [title : {"", "t1", "t2"}, authors : {"", "a1"}]

\* "if publication['title'] or publication['authors']"
HasTitleOrAuthors(c) == c.title # "" \/ c.authors # ""

\* Strategy 1: the publications of pub_containers[:limit]
FromContainers(cs, lim) ==
    IF Len(cs) > FewContainers
    THEN SelectSeq(Take(cs, lim), HasTitleOrAuthors)
    ELSE <<>>

\* unique_pubs: the first publication of each non-empty normalized title
RECURSIVE unique_pubs(_, _)
unique_pubs(pubs, seen) ==
    IF pubs = <<>> THEN <<>>
    ELSE IF Head(pubs).title # "" /\ Head(pubs).title \notin seen
         THEN <<Head(pubs)>> \o unique_pubs(Tail(pubs), seen \cup {Head(pubs).title})
         ELSE unique_pubs(Tail(pubs), seen)

InitPubContainers ==
    /\ fn = "extract_publications"
    /\ arg \in SeqsUpTo(Candidates, MaxContainers)
    /\ ret = <<>> /\ ret2 = <<>> /\ ppc = "start"
    /\ OthersIdle

ExtractFromContainers ==
    /\ ppc = "start" /\ fn = "extract_publications"
    /\ ret' = unique_pubs(FromContainers(arg, DefaultLimit), {})
    /\ ppc' = "done"
    /\ UNCHANGED <<fn, arg, ret2>>
    /\ UNCHANGED <<exVars, subVars, runVars>>

NextPubContainers == ExtractFromContainers

SpecPubContainers == InitPubContainers /\ [][NextPubContainers]_vars

\* C20: every candidate with a title or authors has a publication of its
\* title in the returned list.
C20_KeptUnlessBothEmpty ==
    (ppc = "done" /\ Len(arg) > FewContainers) =>
        \A i \in 1..Len(arg) :
            HasTitleOrAuthors(arg[i]) =>
                \E j \in 1..Len(ret) : ret[j].title = arg[i].title

(***************************************************************************)
(* extract_funding_info and extract_period_info (project_contents.py       *)
(* 139-203).  A text is the sequence of the items the patterns can match   *)
(* in it, in the order they occur.                                         *)
(***************************************************************************)
MaxTokens == 3     \* matchable items in one text

\* Two reference codes, two amounts, two agency names, two year ranges and
\* a word that nothing matches.
RefCodes == {"TEC2016-1", "PID2019-2"}

Amounts == {"100", "250"}

Agencies == <<"MINECO", "EU">>

YearRanges == {"2018-2021", "2020-2023"}

TextTokens ==
    RefCodes \cup Amounts \cup {Agencies[i] : i \in 1..Len(Agencies)}
    \cup YearRanges \cup {"word"}

\* set(re.findall(pattern, text)): every match of the pattern
FindAll(set, text) == {text[i] : i \in {j \in 1..Len(text) : text[j] \in set}}

\* re.search(pattern, text): the first match, if any
Search(set, text) ==
    LET idx == {j \in 1..Len(text) : text[j] \in set}
    IN  IF idx = {} THEN {}
        ELSE {text[CHOOSE j \in idx : \A k \in idx : j <= k]}

\* funding_info: reference_codes, amounts, and the agencies of the fixed
\* list found in the text, in the order of that list
extract_funding_info(text) ==
    [reference_codes |-> FindAll(RefCodes, text),
     amounts |-> FindAll(Amounts, text),
     agencies |-> SelectSeq(Agencies, LAMBDA a : \E i \in 1..Len(text) : text[i] = a),
     periods |-> {}]

\* period_info: full_period of the one match of re.search
extract_period_info(text) ==
    [reference_codes |-> {}, amounts |-> {}, agencies |-> <<>>,
     periods |-> Search(YearRanges, text)]

InitFundingPeriod ==
    /\ fn \in {"extract_funding_info", "extract_period_info"}
    /\ arg \in SeqsUpTo(TextTokens, MaxTokens)
    /\ ret = <<>> /\ ret2 = <<>> /\ ppc = "start"
    /\ OthersIdle

CallFundingInfo ==
    /\ ppc = "start" /\ fn = "extract_funding_info"
    /\ ret' = extract_funding_info(arg)
    /\ ppc' = "done"
    /\ UNCHANGED <<fn, arg, ret2>>
    /\ UNCHANGED <<exVars, subVars, runVars>>

CallPeriodInfo ==
    /\ ppc = "start" /\ fn = "extract_period_info"
    /\ ret' = extract_period_info(arg)
    /\ ppc' = "done"
    /\ UNCHANGED <<fn, arg, ret2>>
    /\ UNCHANGED <<exVars, subVars, runVars>>

NextFundingPeriod ==
    \/ CallFundingInfo
    \/ CallPeriodInfo

SpecFundingPeriod == InitFundingPeriod /\ [][NextFundingPeriod]_vars

\* C21: extract_funding_info returns every reference code, amount and
\* agency of the text, and extract_period_info every year range of it.
C21_AllItemsKept ==
    ppc = "done" =>
        /\ fn = "extract_funding_info" =>
              /\ ret.reference_codes = FindAll(RefCodes, arg)
              /\ ret.amounts = FindAll(Amounts, arg)
              /\ \A i \in 1..Len(arg) :
                    (\E k \in 1..Len(Agencies) : Agencies[k] = arg[i]) =>
                        \E j \in 1..Len(ret.agencies) : ret.agencies[j] = arg[i]
        /\ fn = "extract_period_info" =>
              ret.periods = FindAll(YearRanges, arg)

(***************************************************************************)
(* extract_main_sections (base.py 8-64).  menu_items are the links the     *)
(* menu selectors, or else find_all('a', href=True), give.                 *)
(***************************************************************************)
MaxLinks == 2      \* links among menu_items

\* link.text.strip(): empty for a link around an image
LinkTexts == {"", "Our Team"}

\* The href attributes: none, an anchor, a script, a path, a URL of the
\* site, a URL of another site, a mail address at the site's domain, a
\* mail address elsewhere.
Hrefs ==
    {"", "#top", "javascript:", "/staff", "http://site/staff",
     "http://other/", "mailto:info@site", "mailto:info@other"}

\* urljoin(base_url, href): a path is resolved against base_url, a
\* reference with a scheme of its own is returned as it is.
UrlJoin(href) == IF href = "/staff" THEN "http://site/staff" ELSE href

\* base_url.split('/')[2] in full_url
DomainIn(url) == url \in {"http://site/staff", "mailto:info@site"}

\* url.startswith('http')
StartsWithHttp(url) == url \in {"http://site/staff", "http://other/"}

\* re.sub(r'\W+', '_', text.lower())
SectionId(text) == IF text = "Our Team" THEN "our_team" ELSE text

\* "if not href or href.startswith('#') or href.startswith('javascript:')"
SkippedHref(href) == href \in {"", "#top", "javascript:"}

RECURSIVE SectionsFrom(_)
SectionsFrom(links) ==
    IF links = <<>> THEN <<>>
    ELSE LET l == Head(links)
         IN  (IF SkippedHref(l.href) \/ ~DomainIn(UrlJoin(l.href)) THEN <<>>
              ELSE <<[title |-> l.text, url |-> UrlJoin(l.href),
                      section_id |-> SectionId(l.text)]>>)
             \o SectionsFrom(Tail(links))

\* "if not soup: return []"
extract_main_sections(page) ==
    IF ~page.fetched THEN <<>> ELSE SectionsFrom(page.links)

InitMainSections ==
    /\ fn = "extract_main_sections"
    /\ arg \in [fetched : BOOLEAN,
                links : SeqsUpTo([text : LinkTexts, href : Hrefs], MaxLinks)]
    /\ ret = <<>> /\ ret2 = <<>> /\ ppc = "start"
    /\ OthersIdle

CallMainSections ==
    /\ ppc = "start" /\ fn = "extract_main_sections"
    /\ ret' = extract_main_sections(arg)
    /\ ppc' = "done"
    /\ UNCHANGED <<fn, arg, ret2>>
    /\ UNCHANGED <<exVars, subVars, runVars>>

NextMainSections == CallMainSections

SpecMainSections == InitMainSections /\ [][NextMainSections]_vars

\* C22: every section returned has a non-empty title and a url that starts
\* with 'http'.
C22_SectionsWellFormed ==
    ppc = "done" =>
        \A i \in 1..Len(ret) :
            /\ ret[i].title # ""
            /\ StartsWithHttp(ret[i].url)

(***************************************************************************)
(* extract_publications with its limit (publications.py 46-205): the       *)
(* containers, the matches of the three text patterns and the PDF links of *)
(* the fetched page.                                                       *)
(***************************************************************************)
MaxPubs == 4       \* items one selector or pattern finds on the page

\* The normalized titles of the n items of source j: all different, or all
\* the same.
Titled(j, n, distinct) == [i \in 1..n |-> IF distinct THEN 10 * j + i ELSE 1]

\* Strategy 1: "if pub_containers and len(pub_containers) > 3:
\* for container in pub_containers[:limit]"
PubsFromContainers(containers, lim) ==
    IF Len(containers) > FewContainers THEN Take(containers, lim) ELSE <<>>

\* Strategy 2: "if not publications", the loop over the patterns
PubsFromText(pubs, matches, lim) ==
    IF pubs = <<>> THEN PatternLoop(matches, 1, <<>>, lim) ELSE pubs

\* Strategy 3: "if len(publications) < limit // 2:
\* for link in pdf_links[:limit - len(publications)]"
PubsFromPdfLinks(pubs, pdfs, lim) ==
    IF Len(pubs) < lim \div 2 THEN pubs \o Take(pdfs, lim - Len(pubs)) ELSE pubs

extract_publications(lim, page) ==
    LET keys == PubsFromPdfLinks(
                    PubsFromText(PubsFromContainers(page.containers, lim),
                                 page.matches, lim),
                    page.pdfs, lim)
    IN  Dedup(MkRecs("publication", 1, keys), {})

InitPubLimit ==
    /\ fn = "extract_publications"
    /\ arg \in {[limit |-> l,
                 page |-> [containers |-> Titled(1, c, dd),
                           matches |-> <<Titled(2, m[1], dd), Titled(3, m[2], dd),
                                         Titled(4, m[3], dd)>>,
                           pdfs |-> Titled(5, p, dd)]] :
                    l \in 1..MaxLimit, c \in 0..MaxPubs,
                    m \in [1..3 -> 0..MaxPubs], p \in 0..MaxPubs, dd \in BOOLEAN}
    /\ ret = <<>> /\ ret2 = <<>> /\ ppc = "start"
    /\ OthersIdle

CallExtractPublications ==
    /\ ppc = "start" /\ fn = "extract_publications"
    /\ ret' = extract_publications(arg.limit, arg.page)
    /\ ppc' = "done"
    /\ UNCHANGED <<fn, arg, ret2>>
    /\ UNCHANGED <<exVars, subVars, runVars>>

NextPubLimit == CallExtractPublications

SpecPubLimit == InitPubLimit /\ [][NextPubLimit]_vars

\* C23: extract_publications(limit=L) returns at most L publications.
C23_AtMostLimit == ppc = "done" => Len(ret) <= arg.limit

(***************************************************************************)
(* SessionManager.get_soup and get_selenium_soup (browser.py 78-189).      *)
(* arg holds the entry call: retries, the use_selenium argument and        *)
(* self.use_selenium.  ret2 holds the call in progress: the retries and    *)
(* use_selenium of the get_soup being entered, the attempt of its loop,    *)
(* the browser navigations and static requests made, the functions entered.*)
(***************************************************************************)
MaxRetries == 4        \* largest retries argument
DefaultRetries == 3    \* get_soup(self, url, retries=3, ...)

InitFetch ==
    /\ fn \in {"get_soup", "get_selenium_soup"}
    /\ arg \in [retries : IF fn = "get_soup" THEN 0..MaxRetries ELSE {DefaultRetries},
                use_selenium : IF fn = "get_soup" THEN BOOLEAN ELSE {TRUE},
                self_use_selenium : BOOLEAN]
    /\ ret = "pending"
    /\ ret2 = [retries |-> arg.retries, use_selenium |-> arg.use_selenium,
               attempt |-> 0, navs |-> 0, statics |-> 0, calls |-> <<>>]
    /\ ppc = fn
    /\ OthersIdle

\* get_soup is entered: "if self.use_selenium and use_selenium: return
\* self.get_selenium_soup(url)", else the loop "for attempt in range(retries)".
GetSoupEnter ==
    /\ ppc = "get_soup"
    /\ ppc' = IF arg.self_use_selenium /\ ret2.use_selenium
              THEN "get_selenium_soup" ELSE "static"
    /\ ret2' = [ret2 EXCEPT !.calls = Append(@, "get_soup"), !.attempt = 0]
    /\ UNCHANGED <<fn, arg, ret>>
    /\ UNCHANGED <<exVars, subVars, runVars>>

\* get_selenium_soup is entered: "if not self.use_selenium: return
\* self.get_soup(url)", else the try block.
SeleniumEnter ==
    /\ ppc = "get_selenium_soup"
    /\ IF arg.self_use_selenium
       THEN /\ ppc' = "navigate"
            /\ ret2' = [ret2 EXCEPT !.calls = Append(@, "get_selenium_soup")]
       ELSE /\ ppc' = "get_soup"
            /\ ret2' = [ret2 EXCEPT !.calls = Append(@, "get_selenium_soup"),
                                    !.retries = DefaultRetries,
                                    !.use_selenium = FALSE]
    /\ UNCHANGED <<fn, arg, ret>>
    /\ UNCHANGED <<exVars, subVars, runVars>>

\* self.driver.get(url), the wait and page_source succeed.
NavigateOk ==
    /\ ppc = "navigate"
    /\ ret2' = [ret2 EXCEPT !.navs = @ + 1]
    /\ ret' = "document"
    /\ ppc' = "done"
    /\ UNCHANGED <<fn, arg>>
    /\ UNCHANGED <<exVars, subVars, runVars>>

\* "except Exception: ... return self.get_soup(url, logger=logger)"
NavigateFails ==
    /\ ppc = "navigate"
    /\ ret2' = [ret2 EXCEPT !.navs = @ + 1, !.retries = DefaultRetries,
                            !.use_selenium = FALSE]
    /\ ppc' = "get_soup"
    /\ UNCHANGED <<fn, arg, ret>>
    /\ UNCHANGED <<exVars, subVars, runVars>>

\* self.session.get and raise_for_status succeed: return BeautifulSoup(...)
StaticOk ==
    /\ ppc = "static"
    /\ ret2.attempt < ret2.retries
    /\ ret2' = [ret2 EXCEPT !.statics = @ + 1]
    /\ ret' = "document"
    /\ ppc' = "done"
    /\ UNCHANGED <<fn, arg>>
    /\ UNCHANGED <<exVars, subVars, runVars>>

\* "except requests.exceptions.RequestException: ... if attempt ==
\* retries - 1: return None"
StaticFails ==
    /\ ppc = "static"
    /\ ret2.attempt < ret2.retries
    /\ ret2' = [ret2 EXCEPT !.statics = @ + 1, !.attempt = @ + 1]
    /\ IF ret2.attempt = ret2.retries - 1
       THEN ret' = None /\ ppc' = "done"
       ELSE UNCHANGED <<ret, ppc>>
    /\ UNCHANGED <<fn, arg>>
    /\ UNCHANGED <<exVars, subVars, runVars>>

\* range(retries) is empty: the function ends without a return statement.
StaticNoAttempt ==
    /\ ppc = "static"
    /\ ret2.retries = 0
    /\ ret' = None
    /\ ppc' = "done"
    /\ UNCHANGED <<fn, arg, ret2>>
    /\ UNCHANGED <<exVars, subVars, runVars>>

NextFetch ==
    \/ GetSoupEnter
    \/ SeleniumEnter
    \/ NavigateOk
    \/ NavigateFails
    \/ StaticOk
    \/ StaticFails
    \/ StaticNoAttempt

SpecFetch == InitFetch /\ [][NextFetch]_vars

Times(name, calls) == Cardinality({i \in 1..Len(calls) : calls[i] = name})

\* C24: a get_soup(url, retries=R, ...) call ends after at most one browser
\* navigation and at most R static attempts, returns None from the static
\* path only after exactly R failed attempts, and get_soup and
\* get_selenium_soup do not call each other more than once.
C24_BoundedAttempts ==
    (fn = "get_soup" /\ ppc = "done") =>
        /\ ret \in {"document", None}
        /\ ret2.navs <= 1
        /\ ret2.statics <= arg.retries
        /\ (ret = None => ret2.statics = arg.retries)
        /\ Times("get_selenium_soup", ret2.calls) <= 1
        /\ Times("get_soup", ret2.calls) <= 2

(***************************************************************************)
(* The lists extract_staff, extract_projects and extract_publications      *)
(* return (SpecExtract).                                                   *)
(***************************************************************************)
DedupKinds == {"staff", "projects", "publications"}

\* The positions of rs that hold the first record of a non-empty key.
Firsts(rs) ==
    {i \in 1..Len(rs) :
        rs[i].key # 0 /\ \A j \in 1..(i - 1) : rs[j].key # rs[i].key}

\* The n-th of these positions.
NthFirst(rs, n) ==
    CHOOSE i \in Firsts(rs) : Cardinality({j \in Firsts(rs) : j <= i}) = n

\* C25: the list returned by extract_staff, extract_projects and
\* extract_publications has no two records with the same normalized key;
\* it holds, in the order they were produced, the first record produced for
\* each key.
C25_FirstOfEachKey ==
    (xpc = "returned" /\ kind \in DedupKinds) =>
        /\ \A i, j \in 1..Len(result) : i < j => result[i].key # result[j].key
        /\ Len(result) = Cardinality(Firsts(recs))
        /\ \A n \in 1..Len(result) : result[n] = recs[NthFirst(recs, n)]

\* A list was returned from records in which a key came back after a record
\* of another key.
C25_Witness ==
    /\ xpc = "returned" /\ kind \in DedupKinds
    /\ Len(result) >= 2
    /\ \E i, j, m \in 1..Len(recs) :
          /\ i < j /\ j < m
          /\ recs[i].key # 0 /\ recs[i].key = recs[m].key
          /\ recs[j].key \notin {0, recs[i].key}

(***************************************************************************)
(* Further properties of extract_all_subpages (SpecSubpages).              *)
(***************************************************************************)
\* C26: every node stored in all_pages under a URL was built from the
\* document of that URL.
C26_NodeFromOwnPage ==
    \A u \in URLs : InAgg(all_pages, u) => all_pages[u].src = u

\* C27: no URL is fetched more than once within the call.
C27_FetchedOnce ==
    \A f, g \in fetches : f.url = g.url => f = g

(***************************************************************************)
(* Further properties of run_full_scrape (SpecRun).                        *)
(***************************************************************************)
\* C28: a run that started with a browser session ends, whether it returns
\* or raises, with the driver closed.
C28_SessionClosed ==
    rpc \in {"returned", "raised"} => driver # "open"

(***************************************************************************)
(* extract_project_contents (project_contents.py 8-101).  arg is the list  *)
(* of projects, each given by its url (0: no url); ret is project_contents,*)
(* the URLs that have an entry; ret2 holds the position of the loop and    *)
(* the fetches made, in order.                                             *)
(***************************************************************************)
MaxProjects == 3   \* projects in the list
NumProjectUrls == 2    \* distinct project URLs

InitProjectContents ==
    /\ fn = "extract_project_contents"
    /\ arg \in SeqsUpTo(0..NumProjectUrls, MaxProjects)
    /\ ret = {}
    /\ ret2 = [idx |-> 1, log |-> <<>>]
    /\ ppc = "loop"
    /\ OthersIdle

\* "if not project.get('url'): continue" and
\* "if project_url in project_contents: continue"
PCSkip ==
    /\ ppc = "loop" /\ fn = "extract_project_contents"
    /\ ret2.idx <= Len(arg)
    /\ arg[ret2.idx] = 0 \/ arg[ret2.idx] \in ret
    /\ ret2' = [ret2 EXCEPT !.idx = @ + 1]
    /\ UNCHANGED <<fn, arg, ret, ppc>>
    /\ UNCHANGED <<exVars, subVars, runVars>>

\* get_soup(project_url, use_selenium=True) gives a document: the content
\* is stored under project_url.
PCFetchOk ==
    /\ ppc = "loop" /\ fn = "extract_project_contents"
    /\ ret2.idx <= Len(arg)
    /\ arg[ret2.idx] # 0 /\ arg[ret2.idx] \notin ret
    /\ ret2' = [ret2 EXCEPT !.idx = @ + 1,
                            !.log = Append(@, [url |-> arg[ret2.idx], ok |-> TRUE])]
    /\ ret' = ret \cup {arg[ret2.idx]}
    /\ UNCHANGED <<fn, arg, ppc>>
    /\ UNCHANGED <<exVars, subVars, runVars>>

\* get_soup gives None: "if not soup: ... continue"
PCFetchFails ==
    /\ ppc = "loop" /\ fn = "extract_project_contents"
    /\ ret2.idx <= Len(arg)
    /\ arg[ret2.idx] # 0 /\ arg[ret2.idx] \notin ret
    /\ ret2' = [ret2 EXCEPT !.idx = @ + 1,
                            !.log = Append(@, [url |-> arg[ret2.idx], ok |-> FALSE])]
    /\ UNCHANGED <<fn, arg, ret, ppc>>
    /\ UNCHANGED <<exVars, subVars, runVars>>

\* "if not projects: return project_contents", or the loop has ended.
PCReturn ==
    /\ ppc = "loop" /\ fn = "extract_project_contents"
    /\ ret2.idx > Len(arg)
    /\ ppc' = "done"
    /\ UNCHANGED <<fn, arg, ret, ret2>>
    /\ UNCHANGED <<exVars, subVars, runVars>>

NextProjectContents ==
    \/ PCSkip
    \/ PCFetchOk
    \/ PCFetchFails
    \/ PCReturn

SpecProjectContents == InitProjectContents /\ [][NextProjectContents]_vars

\* C29: extract_project_contents fetches each distinct project URL at most
\* once, whether the fetch succeeds or fails, and the mapping returned has
\* an entry for exactly the URLs whose fetch succeeded.
C29_EachUrlFetchedOnce ==
    (fn = "extract_project_contents" /\ ppc = "done") =>
        /\ \A i, j \in 1..Len(ret2.log) :
              ret2.log[i].url = ret2.log[j].url => i = j
        /\ ret = {ret2.log[i].url : i \in {j \in 1..Len(ret2.log) : ret2.log[j].ok}}

(***************************************************************************)
(* One call of an extract_* method of IMSEScraperAdvanced (scraper.py      *)
(* 70-292).  arg holds the method's arguments and extracted_data as it was *)
(* before the call; ret is the value returned; ret2 is extracted_data      *)
(* after the call.  A value stored by an earlier call is "old" (non-empty) *)
(* or "old_empty"; the extractor of this call gives "data" or "empty".     *)
(***************************************************************************)
ExtractMethods ==
    {"extract_main_sections", "extract_news", "extract_research_groups",
     "extract_publications", "extract_staff", "extract_contact_info",
     "extract_projects", "extract_project_contents", "extract_all_subpages"}

\* The key of extracted_data each method writes.
EntityKey(m) ==
    CASE m = "extract_main_sections" -> "sections"
      [] m = "extract_news" -> "news"
      [] m = "extract_research_groups" -> "research_groups"
      [] m = "extract_publications" -> "publications"
      [] m = "extract_staff" -> "staff"
      [] m = "extract_contact_info" -> "contact_info"
      [] m = "extract_projects" -> "projects"
      [] m = "extract_project_contents" -> "project_contents"
      [] m = "extract_all_subpages" -> "all_pages"

\* "if not projects"
HasItems(v) == v \in {"data", "old"}

InitExtractCall ==
    /\ fn \in ExtractMethods
    /\ arg \in [extracted_data :
                    {d \in [DataKeys -> {None, "old", "old_empty"}] :
                        \A k \in DataKeys \ {"projects"} : d[k] # "old_empty"},
                return_raw : IF fn = "extract_staff" THEN BOOLEAN ELSE {FALSE},
                projects : IF fn = "extract_project_contents"
                           THEN {None, "data", "empty"} ELSE {None},
                base_sections : IF fn = "extract_all_subpages"
                                THEN {None, "data", "empty"} ELSE {None}]
    /\ ret = None
    /\ ret2 = arg.extracted_data
    /\ ppc = "start"
    /\ OthersIdle

\* extract_main_sections, extract_news, extract_research_groups,
\* extract_publications, extract_contact_info, extract_projects:
\* self.extracted_data[key] = value; return value
CallExtractAndStore ==
    /\ ppc = "start"
    /\ fn \in ExtractMethods \ {"extract_staff", "extract_project_contents",
                                "extract_all_subpages"}
    /\ \E v \in Outcomes :
         /\ ret' = v
         /\ ret2' = [ret2 EXCEPT ![EntityKey(fn)] = v]
    /\ ppc' = "done"
    /\ UNCHANGED <<fn, arg>>
    /\ UNCHANGED <<exVars, subVars, runVars>>

\* extract_staff(return_raw): "if return_raw: return staff"
CallExtractStaff ==
    /\ ppc = "start"
    /\ fn = "extract_staff"
    /\ \E v \in Outcomes :
         /\ ret' = v
         /\ ret2' = IF arg.return_raw THEN ret2
                    ELSE [ret2 EXCEPT !["staff"] = v]
    /\ ppc' = "done"
    /\ UNCHANGED <<fn, arg>>
    /\ UNCHANGED <<exVars, subVars, runVars>>

\* extract_project_contents(projects): "if projects is None: projects =
\* self.extracted_data.get('projects', [])"; "if not projects: return {}"
CallExtractProjectContents ==
    /\ ppc = "start"
    /\ fn = "extract_project_contents"
    /\ LET projects == IF arg.projects = None THEN ret2["projects"]
                       ELSE arg.projects
       IN  IF ~HasItems(projects)
           THEN ret' = "empty" /\ UNCHANGED ret2
           ELSE \E v \in Outcomes :
                   /\ ret' = v
                   /\ ret2' = [ret2 EXCEPT !["project_contents"] = v]
    /\ ppc' = "done"
    /\ UNCHANGED <<fn, arg>>
    /\ UNCHANGED <<exVars, subVars, runVars>>

\* extract_all_subpages(base_sections): "if base_sections is None:
\* base_sections = self.extract_main_sections()", which stores the sections.
CallExtractAllSubpages ==
    /\ ppc = "start"
    /\ fn = "extract_all_subpages"
    /\ \E s \in Outcomes, v \in Outcomes :
         LET sections_given == IF arg.base_sections = None THEN s
                               ELSE arg.base_sections
             stored == IF arg.base_sections = None
                       THEN [ret2 EXCEPT !["sections"] = s]
                       ELSE ret2
             pages == IF HasItems(sections_given) THEN v ELSE "empty"
         IN  /\ ret' = pages
             /\ ret2' = [stored EXCEPT !["all_pages"] = pages]
    /\ ppc' = "done"
    /\ UNCHANGED <<fn, arg>>
    /\ UNCHANGED <<exVars, subVars, runVars>>

NextExtractCall ==
    \/ CallExtractAndStore
    \/ CallExtractStaff
    \/ CallExtractProjectContents
    \/ CallExtractAllSubpages

SpecExtractCall == InitExtractCall /\ [][NextExtractCall]_vars

\* C30: extract_staff(return_raw=True) leaves extracted_data as it was;
\* every other extract_* call stores the value it returns under its own key
\* and changes no other key.
C30_StoredUnderOwnKey ==
    ppc = "done" =>
        IF fn = "extract_staff" /\ arg.return_raw
        THEN ret2 = arg.extracted_data
        ELSE /\ ret2[EntityKey(fn)] = ret
             /\ \A k \in DataKeys \ {EntityKey(fn)} :
                   ret2[k] = arg.extracted_data[k]

====
